---- MODULE Spec2Model ----
(***************************************************************************)
(* Model of the amortization engines of the housing loan calculator:       *)
(*   src/utils/calculations.py  calculate_loan_schedule_simple,            *)
(*                              calculate_loan_schedule_variable_rates,    *)
(*                              calculate_standard_mortgage_schedule,      *)
(*                              calculate_variable_rate_mortgage_schedule, *)
(*                              calculate_monthly_payment,                 *)
(*                              calculate_top_up_amount                    *)
(*   src/housing.py             calculate_top_up_amount (combined variant) *)
(*                                                                         *)
(*   src/pages/04_loan_comparison.py  the scenarios it hands to the simple *)
(*                              engine                                     *)
(*                                                                         *)
(* One behaviour of Spec is one call of one engine.  A step is one pass    *)
(* through the engine's loop body (one appended period record), preceded   *)
(* by the code before the loop and followed by the DataFrame               *)
(* post-processing.  A behaviour of SessionSpec is a sequence of calls, as *)
(* a page makes them (the baseline, then the scenario); history keeps what *)
(* the earlier calls returned.                                             *)
(*                                                                         *)
(* Numbers.  The program computes in binary floating point.  The model     *)
(* computes in fixed point: a monetary amount is an integer number of      *)
(* thousandths of a currency unit (so the 0.01 of the source is 10), an    *)
(* annual rate is an integer number of percent (0.04 is 4), and every      *)
(* product or quotient that is not an integer is rounded to the nearest    *)
(* representable value, as a floating-point operation is.                  *)
(*                                                                         *)
(* Lists.  The loops append to their lists and read only the last two      *)
(* elements and the length; the model keeps the last appended record       *)
(* (rec), the element before the last of remaining_principal_balances      *)
(* (prev_remaining) and the length (n).  The post-processing works on the  *)
(* whole columns: the model keeps the first MaxRows records (rows) and     *)
(* builds from them the first MaxRows rows of the DataFrame (df), whose    *)
(* cumulative columns depend on no later row.                              *)
(***************************************************************************)
EXTENDS Integers, Sequences, FiniteSets, TLC

VARIABLES
    engine,          \* the function called
    args,            \* its arguments
    pc,              \* "call", "loop", "returned", "raised"
    error,           \* the exception raised, "" when none
    balance,         \* left_principal_balance / remaining_balance
    period,          \* period (payment_number in the variable-rate mortgage)
    year,            \* year / cal_year
    month,           \* month / cal_month
    loan_year,       \* loan_year
    month_in_year,   \* month_in_year of the variable-rate mortgage loop
    monthly_payment, \* monthly_payment, << >> while not computed
    n,               \* len() of the lists / of payment_schedule
    rec,             \* the last appended period record
    prev_remaining,  \* remaining_principal_balances[-2]
    rows,            \* the first MaxRows entries of the lists, as records
    df,              \* the first MaxRows rows of the returned DataFrame
    calls,           \* the calls made before this one
    history          \* what the calls made before this one returned

vars == <<engine, args, pc, error, balance, period, year, month, loan_year,
          month_in_year, monthly_payment, n, rec, prev_remaining, rows, df,
          calls, history>>

----------------------------------------------------------------------------
(* Bounds of the model *)

\* rows of the lists and of the DataFrame that the model keeps
MaxRows == 25

\* calls of the engines that one session of the application makes
MaxCalls == 3

\* periods after which the model stops following a loop that has no cap
MaxPeriods == 1201

----------------------------------------------------------------------------
(* Arithmetic *)

Min(a, b) == IF a <= b THEN a ELSE b
Max(a, b) == IF a >= b THEN a ELSE b

\* a / b rounded to the nearest integer (halves upwards), b # 0
RoundDiv(a, b) ==
    IF b > 0 THEN (2 * a + b) \div (2 * b)
             ELSE (2 * (-a) + (-b)) \div (2 * (-b))

IsLeap(y) == (y % 4 = 0 /\ y % 100 # 0) \/ y % 400 = 0

\* calendar.monthrange(year, month)[1]
DaysInMonth(y, m) ==
    IF m = 2 THEN (IF IsLeap(y) THEN 29 ELSE 28)
    ELSE IF m \in {4, 6, 9, 11} THEN 30 ELSE 31

\* balance * rate * days_in_month / 365
DailyInterest(bal, rate, days) == RoundDiv(bal * rate * days, 365 * 100)

\* balance * (rate / 12)
MonthlyInterest(bal, rate) == RoundDiv(bal * rate, 12 * 100)

\* the month after (y, m): month wraps 12 -> 1 with year + 1
NextMonth(y, m) == IF m = 12 THEN [year |-> y + 1, month |-> 1]
                             ELSE [year |-> y, month |-> m + 1]

\* principal_payment of one period
PrincipalPaymentNoMin(left, total_available_payment, interest_payment) ==
    IF total_available_payment <= interest_payment
    THEN 0
    ELSE total_available_payment - interest_payment

PrincipalPaymentNoGuard(left, total_available_payment, interest_payment) ==
    Min(left, total_available_payment - interest_payment)

PrincipalPayment(left, total_available_payment, interest_payment) ==
    IF total_available_payment <= interest_payment
    THEN 0
    ELSE Min(left, total_available_payment - interest_payment)

\* add_on of the 1-based period p
AddOnYearStart(p, yearly_add_on) == IF p % 12 = 1 THEN yearly_add_on ELSE 0

AddOn(p, yearly_add_on) == IF p % 12 = 0 THEN yearly_add_on ELSE 0

----------------------------------------------------------------------------
(* Python values *)

None == << >>
Some(v) == <<v>>
Val(o) == o[1]

----------------------------------------------------------------------------
(* calculate_monthly_payment *)

\* fixed-point one of the powers
PowScale == 1000000

\* (1 + monthly_rate) ** k, scaled by PowScale; a negative exponent is the
\* reciprocal
RECURSIVE Pow(_, _)
Pow(rate, k) ==
    IF k = 0 THEN PowScale
    ELSE IF k < 0 THEN RoundDiv(PowScale * 1000, RoundDiv(Pow(rate, -k), 1000))
    ELSE LET p == Pow(rate, k - 1) IN p + RoundDiv(p * rate, 12 * 100)

\* calculate_monthly_payment(principal, annual_rate, years);
\* None stands for its ZeroDivisionError
CalculateMonthlyPaymentYearly(principal, annual_rate, years) ==
    IF annual_rate = 0
    THEN IF years * 12 = 0 THEN None
         ELSE Some(RoundDiv(principal, years * 12))
    ELSE LET num_payments == years
             pow == Pow(annual_rate, num_payments)
         IN IF pow - PowScale = 0 THEN None
            ELSE Some(RoundDiv(principal * RoundDiv(annual_rate * pow, 12 * 100),
                               pow - PowScale))

CalculateMonthlyPayment(principal, annual_rate, years) ==
    IF annual_rate = 0
    THEN IF years * 12 = 0 THEN None
         ELSE Some(RoundDiv(principal, years * 12))
    ELSE LET num_payments == years * 12
             pow == Pow(annual_rate, num_payments)
         IN IF pow - PowScale = 0 THEN None
            ELSE Some(RoundDiv(principal * RoundDiv(annual_rate * pow, 12 * 100),
                               pow - PowScale))

----------------------------------------------------------------------------
(* calculate_top_up_amount *)

\* top_up_params: None, or a dict; a key the dict lacks reads as the default
\* of its .get (strategy "", amounts 0)
TopUp(strategy, amount, minimum_payment, additional_amount) ==
    Some([strategy |-> strategy, amount |-> amount,
          minimum_payment |-> minimum_payment,
          additional_amount |-> additional_amount])

\* src/utils/calculations.py: chosen by strategy
TopUpByStrategyNoFloor(base_payment, top_up_params) ==
    IF top_up_params = None \/ Val(top_up_params).strategy = "none"
    THEN 0
    ELSE LET strategy == Val(top_up_params).strategy
             amount == Val(top_up_params).amount
         IN IF strategy = "fixed" THEN amount - base_payment
            ELSE IF strategy = "additional" THEN amount
            ELSE IF strategy = "percentage"
                 THEN RoundDiv(base_payment * amount, 100)
            ELSE 0

TopUpByStrategy(base_payment, top_up_params) ==
    IF top_up_params = None \/ Val(top_up_params).strategy = "none"
    THEN 0
    ELSE LET strategy == Val(top_up_params).strategy
             amount == Val(top_up_params).amount
         IN IF strategy = "fixed" THEN Max(0, amount - base_payment)
            ELSE IF strategy = "additional" THEN amount
            ELSE IF strategy = "percentage"
                 THEN RoundDiv(base_payment * amount, 100)
            ELSE 0

\* src/housing.py: minimum payment and additional amount combined
TopUpCombinedSum(base_payment, top_up_params) ==
    IF top_up_params = None
    THEN 0
    ELSE LET minimum_payment == Val(top_up_params).minimum_payment
             additional_amount == Val(top_up_params).additional_amount
             effective_payment ==
                 Max(base_payment, minimum_payment + additional_amount)
         IN effective_payment - base_payment

TopUpCombinedShortfall(base_payment, top_up_params) ==
    IF top_up_params = None
    THEN 0
    ELSE LET minimum_payment == Val(top_up_params).minimum_payment
             additional_amount == Val(top_up_params).additional_amount
             effective_payment ==
                 Max(base_payment, minimum_payment) + additional_amount
         IN base_payment - effective_payment

TopUpCombined(base_payment, top_up_params) ==
    IF top_up_params = None
    THEN 0
    ELSE LET minimum_payment == Val(top_up_params).minimum_payment
             additional_amount == Val(top_up_params).additional_amount
             effective_payment ==
                 Max(base_payment, minimum_payment) + additional_amount
         IN effective_payment - base_payment

\* the calculate_top_up_amount of the module the engine is called in
CalculateTopUpAmount(module, base_payment, top_up_params) ==
    IF module = "housing" THEN TopUpCombined(base_payment, top_up_params)
                          ELSE TopUpByStrategy(base_payment, top_up_params)

\* remaining_balance <= 0.01
Eps == 10

\* a dict {loan year: value, ..., 'onwards': value}: by_year is the function
\* of its integer keys, onwards is None when the key 'onwards' is absent
Dict(by, onw) == [by_year |-> by, onwards |-> onw]
NoYears == [y \in {} |-> 0]

\* rates_dict[loan_year] if loan_year in rates_dict else rates_dict['onwards'];
\* None stands for the KeyError of a dict without 'onwards'
DictGet(d, ly) ==
    IF ly \in DOMAIN d.by_year THEN Some(d.by_year[ly]) ELSE d.onwards

NoRec == [start |-> 0, principal |-> 0, interest |-> 0, total |-> 0,
          add_on |-> 0, top_up |-> 0, remaining |-> 0, year |-> 0,
          month |-> 0, rate |-> 0, base |-> 0]

----------------------------------------------------------------------------
(* Arguments *)

StartYears == {2026}
StartMonths == {1, 3, 12}
Debts == {-1000, 0, 20005, 48000}
Rates == {-6, 0, 6, 12}
ManualPayments == {-100, 0, 200, 5000}
AddOns == {0, 30000}

RateDicts ==
    { Dict(NoYears, Some(12)),
      Dict(1 :> 6, Some(12)),
      Dict(1 :> 12, None),
      Dict((1 :> 0) @@ (3 :> 6), Some(12)) }

PaymentDicts ==
    { Dict(NoYears, Some(5000)),
      Dict(1 :> 200, Some(20000)),
      Dict(1 :> 5000, None),
      Dict(1 :> 1000, None),
      Dict(1 :> -100, Some(0)) }

TermYears == {-1, 0, 1, 2}

StrategyTopUps ==
    { None,
      TopUp("none", 500, 0, 0),
      TopUp("fixed", 3000, 0, 0),
      TopUp("fixed", 6000, 0, 0),
      TopUp("additional", 1500, 0, 0),
      TopUp("additional", -9000, 0, 0),
      TopUp("percentage", 50, 0, 0),
      TopUp("", 500, 0, 0) }

CombinedTopUps ==
    { None,
      TopUp("", 0, 6000, 0),
      TopUp("", 0, 0, 1500),
      TopUp("", 0, 3000, -9000) }

RateLists ==
    { <<6, 6, 6, 6, 6, 6>>,
      <<0, 12, 6, 6, 6, 6>>,
      <<12, -6, 6, 6, 6, 12>>,
      <<6, 6, 6, 6, 6>>,
      <<6, 12, 6, 6, 6, 6, 6>>,
      << >> }

NoArgs == [start_year |-> 0, start_month |-> 0, debt |-> 0,
           interest_pct |-> 0, monthly_payment |-> 0, yearly_add_on |-> 0,
           interest_rates_dict |-> Dict(NoYears, None),
           monthly_payments_dict |-> Dict(NoYears, None),
           annual_rate |-> 0, years |-> 0, interest_rates_list |-> << >>,
           top_up_params |-> None, module |-> "utils",
           calculation_type |-> ""]

\* the scenarios of the loan-comparison page: the manual payment, or the
\* payment of calculate_monthly_payment, handed to
\* calculate_loan_schedule_simple
ComparisonArgs ==
    { [NoArgs EXCEPT !.start_year = 2026, !.start_month = 1, !.debt = d,
                     !.interest_pct = r, !.monthly_payment = 5000,
                     !.yearly_add_on = 30000, !.years = y,
                     !.calculation_type = "Simple (Manual Payment)"] :
        d \in {20005, 48000}, r \in {0, 6, 12}, y \in {1, 2} }
    \cup
    { [NoArgs EXCEPT !.start_year = 2026, !.start_month = 1, !.debt = d,
                     !.interest_pct = r,
                     !.monthly_payment =
                         Val(CalculateMonthlyPayment(d, r, y)),
                     !.yearly_add_on = 0, !.years = y,
                     !.calculation_type =
                         "Standard Mortgage (Calculated Payment)"] :
        d \in {20005, 48000}, r \in {0, 6, 12}, y \in {1, 2} }

ModuleTopUps ==
    { <<"utils", t>> : t \in StrategyTopUps } \cup
    { <<"housing", t>> : t \in CombinedTopUps }

SimpleArgs ==
    { [NoArgs EXCEPT !.start_year = sy, !.start_month = sm, !.debt = d,
                     !.interest_pct = r, !.monthly_payment = p,
                     !.yearly_add_on = a] :
        sy \in StartYears, sm \in StartMonths, d \in Debts, r \in Rates,
        p \in ManualPayments, a \in AddOns }

VariableRatesArgs ==
    { [NoArgs EXCEPT !.start_year = sy, !.start_month = sm, !.debt = d,
                     !.interest_rates_dict = rd,
                     !.monthly_payments_dict = pd,
                     !.yearly_add_on = a] :
        sy \in StartYears, sm \in {1, 12}, d \in Debts, rd \in RateDicts,
        pd \in PaymentDicts, a \in AddOns }

\* calculated payments of 15000 and 25000 topped up to at least 20000
TargetMinimumExampleArgs ==
    { [NoArgs EXCEPT !.start_year = 2026, !.start_month = 1, !.debt = d,
                     !.annual_rate = 0, !.years = 1,
                     !.module = "utils",
                     !.top_up_params = TopUp("fixed", 20000, 0, 0)] :
        d \in {180000, 300000} }

StandardArgs ==
    TargetMinimumExampleArgs \cup
    { [NoArgs EXCEPT !.start_year = sy, !.start_month = sm, !.debt = d,
                     !.annual_rate = r, !.years = y, !.yearly_add_on = a,
                     !.module = mt[1], !.top_up_params = mt[2]] :
        sy \in StartYears, sm \in {1, 12}, d \in Debts, r \in Rates,
        y \in TermYears, a \in AddOns, mt \in ModuleTopUps }

\* seven-year loans whose rate changes in the loan years 4, 5 and 6
LongTermRateLists == { <<0, 0, 0, 5, 6, 7>>, <<0, 0, 0, 7, 6, 5>> }

LongTermTopUps ==
    { <<"utils", None>>,
      <<"utils", TopUp("percentage", 50, 0, 0)>>,
      <<"housing", TopUp("", 0, 300, 20)>> }

LongTermArgs ==
    { [NoArgs EXCEPT !.start_year = sy, !.start_month = sm, !.debt = 20005,
                     !.interest_rates_list = rl, !.years = 7,
                     !.module = mt[1], !.top_up_params = mt[2]] :
        sy \in StartYears, sm \in {1, 3}, rl \in LongTermRateLists,
        mt \in LongTermTopUps }

VariableMortgageArgs ==
    LongTermArgs \cup
    { [NoArgs EXCEPT !.start_year = sy, !.start_month = sm, !.debt = d,
                     !.interest_rates_list = rl, !.years = y,
                     !.yearly_add_on = a,
                     !.module = mt[1], !.top_up_params = mt[2]] :
        sy \in StartYears, sm \in {1, 3}, d \in Debts \cup {5},
        rl \in RateLists,
        y \in TermYears, a \in AddOns, mt \in ModuleTopUps }

----------------------------------------------------------------------------
(* State before the call *)

Init ==
    /\ \/ engine = "simple" /\ args \in SimpleArgs \cup ComparisonArgs
       \/ engine = "variable_rates" /\ args \in VariableRatesArgs
       \/ engine = "standard" /\ args \in StandardArgs
       \/ engine = "variable_mortgage" /\ args \in VariableMortgageArgs
    /\ pc = "call"
    /\ error = ""
    /\ balance = 0
    /\ period = 0
    /\ year = 0
    /\ month = 0
    /\ loan_year = 0
    /\ month_in_year = 0
    /\ monthly_payment = None
    /\ n = 0
    /\ rec = NoRec
    /\ prev_remaining = 0
    /\ rows = << >>
    /\ df = << >>
    /\ calls = 0
    /\ history = << >>

\* the check that ends every loop body:
\* len(remaining_principal_balances) > 1 and
\* remaining_principal_balances[-1] > remaining_principal_balances[-2]
NotDecreasing(len, last, before) == len > 1 /\ last > before

\* starting_principal_balances = [], ...: every call starts with new lists,
\* whatever an earlier call left
SharedLists(left) == left

EmptyLists(left) == << >>

\* the appends of one loop pass, as one record
AppendRow(rs, r) == IF Len(rs) < MaxRows THEN Append(rs, r) ELSE rs

\* the DataFrame post-processing: total_payment is overwritten
PostProcessKeepTotal(r) == r

PostProcess(r) == [r EXCEPT !.total = r.principal + r.interest]

\* a column of the DataFrame
Column(rs, f) == [i \in 1..Len(rs) |-> rs[i][f]]

\* Series.cumsum() up to row i
RECURSIVE CumSum(_, _)
CumSum(col, i) == IF i = 0 THEN 0 ELSE CumSum(col, i - 1) + col[i]

\* the DataFrame of the lists: period, total_payment overwritten, then the
\* three cumulative columns
DataFrameCumulativeFirst(rs) ==
    LET post == [i \in 1..Len(rs) |-> PostProcess(rs[i])]
    IN [i \in 1..Len(rs) |->
          [period |-> i - 1,
           cumulative_interest |-> CumSum(Column(rs, "interest"), i),
           cumulative_principal |-> CumSum(Column(rs, "principal"), i),
           cumulative_total |-> CumSum(Column(rs, "total"), i)] @@ post[i]]

DataFrame(rs) ==
    LET post == [i \in 1..Len(rs) |-> PostProcess(rs[i])]
    IN [i \in 1..Len(rs) |->
          [period |-> i - 1,
           cumulative_interest |-> CumSum(Column(post, "interest"), i),
           cumulative_principal |-> CumSum(Column(post, "principal"), i),
           cumulative_total |-> CumSum(Column(post, "total"), i)] @@ post[i]]

\* render_summary_metrics: total_principal = df['principal_payment'].sum()
TotalPrincipalWithInterest(frame) ==
    CumSum(Column(frame, "total"), Len(frame))

TotalPrincipal(frame) == CumSum(Column(frame, "principal"), Len(frame))

----------------------------------------------------------------------------
(* calculate_loan_schedule_simple *)

SimpleBegin ==
    /\ engine = "simple" /\ pc = "call"
    /\ year' = args.start_year
    /\ month' = args.start_month
    /\ balance' = args.debt
    /\ period' = 0
    /\ n' = 0
    /\ rec' = NoRec
    /\ prev_remaining' = 0
    /\ rows' = EmptyLists(rows)
    /\ pc' = "loop"
    /\ UNCHANGED df
    /\ UNCHANGED <<calls, history>>
    /\ UNCHANGED <<engine, args, error, loan_year, month_in_year,
                   monthly_payment>>

SimplePeriod ==
    /\ engine = "simple" /\ pc = "loop"
    /\ balance > 0
    /\ period < MaxPeriods
    /\ LET days_in_month == DaysInMonth(year, month)
           interest_payment ==
               DailyInterest(balance, args.interest_pct, days_in_month)
           add_on == AddOn(period + 1, args.yearly_add_on)
           total_available_payment == args.monthly_payment + add_on
           principal_payment ==
               PrincipalPayment(balance, total_available_payment,
                                interest_payment)
           left == balance - principal_payment
           nxt == NextMonth(year, month)
       IN /\ period' = period + 1
          /\ balance' = left
          /\ year' = nxt.year
          /\ month' = nxt.month
          /\ rec' = [start |-> balance,
                     principal |-> principal_payment,
                     interest |-> interest_payment,
                     total |-> principal_payment + interest_payment + add_on,
                     add_on |-> add_on,
                     top_up |-> 0,
                     remaining |-> left,
                     year |-> nxt.year,
                     month |-> nxt.month,
                     rate |-> args.interest_pct,
                     base |-> args.monthly_payment]
          /\ n' = n + 1
          /\ rows' = AppendRow(rows, rec')
          /\ prev_remaining' = rec.remaining
          /\ IF NotDecreasing(n + 1, left, rec.remaining)
             THEN pc' = "raised" /\ error' = "Exception"
             ELSE pc' = "loop" /\ error' = error
    /\ UNCHANGED df
    /\ UNCHANGED <<calls, history>>
    /\ UNCHANGED <<engine, args, loan_year, month_in_year, monthly_payment>>

SimpleReturn ==
    /\ engine = "simple" /\ pc = "loop"
    /\ ~(balance > 0)
    /\ pc' = "returned"
    /\ rec' = PostProcess(rec)
    /\ df' = DataFrame(rows)
    /\ UNCHANGED rows
    /\ UNCHANGED <<calls, history>>
    /\ UNCHANGED <<engine, args, error, balance, period, year, month,
                   loan_year, month_in_year, monthly_payment, n,
                   prev_remaining>>

----------------------------------------------------------------------------
(* calculate_loan_schedule_variable_rates *)

\* if period % 12 == 0: loan_year += 1, after the period's rate and payment
\* were looked up
NextLoanYearEarly(p, ly) == IF p % 12 = 11 THEN ly + 1 ELSE ly

NextLoanYear(p, ly) == IF p % 12 = 0 THEN ly + 1 ELSE ly

VariableRatesBegin ==
    /\ engine = "variable_rates" /\ pc = "call"
    /\ year' = args.start_year
    /\ month' = args.start_month
    /\ balance' = args.debt
    /\ period' = 0
    /\ loan_year' = 1
    /\ n' = 0
    /\ rec' = NoRec
    /\ prev_remaining' = 0
    /\ rows' = EmptyLists(rows)
    /\ pc' = "loop"
    /\ UNCHANGED df
    /\ UNCHANGED <<calls, history>>
    /\ UNCHANGED <<engine, args, error, month_in_year, monthly_payment>>

VariableRatesPeriod ==
    /\ engine = "variable_rates" /\ pc = "loop"
    /\ balance > 0
    /\ period < MaxPeriods
    /\ LET rate_o == DictGet(args.interest_rates_dict, loan_year)
           pay_o == DictGet(args.monthly_payments_dict, loan_year)
       IN IF rate_o = None \/ pay_o = None
          THEN \* KeyError: 'onwards'; starting_principal_balances was
               \* appended and period incremented, nothing else
               /\ pc' = "raised" /\ error' = "KeyError"
               /\ period' = period + 1
               /\ UNCHANGED <<rows, balance, year, month, loan_year, n, rec,
                              prev_remaining>>
          ELSE LET current_interest_rate == Val(rate_o)
                   current_monthly_payment == Val(pay_o)
                   days_in_month == DaysInMonth(year, month)
                   interest_payment ==
                       DailyInterest(balance, current_interest_rate,
                                     days_in_month)
                   add_on == AddOn(period + 1, args.yearly_add_on)
                   total_available_payment ==
                       current_monthly_payment + add_on
                   principal_payment ==
                       PrincipalPayment(balance, total_available_payment,
                                        interest_payment)
                   left == balance - principal_payment
                   nxt == NextMonth(year, month)
               IN /\ period' = period + 1
                  /\ loan_year' = NextLoanYear(period + 1, loan_year)
                  /\ balance' = left
                  /\ rec' = [start |-> balance,
                             principal |-> principal_payment,
                             interest |-> interest_payment,
                             total |-> principal_payment + interest_payment
                                       + add_on,
                             add_on |-> add_on,
                             top_up |-> 0,
                             remaining |-> left,
                             year |-> year,
                             month |-> month,
                             rate |-> current_interest_rate,
                             base |-> current_monthly_payment]
                  /\ n' = n + 1
                  /\ rows' = AppendRow(rows, rec')
                  /\ prev_remaining' = rec.remaining
                  /\ year' = nxt.year
                  /\ month' = nxt.month
                  /\ IF NotDecreasing(n + 1, left, rec.remaining)
                     THEN pc' = "raised" /\ error' = "Exception"
                     ELSE pc' = "loop" /\ error' = error
    /\ UNCHANGED df
    /\ UNCHANGED <<calls, history>>
    /\ UNCHANGED <<engine, args, month_in_year, monthly_payment>>

VariableRatesReturn ==
    /\ engine = "variable_rates" /\ pc = "loop"
    /\ ~(balance > 0)
    /\ pc' = "returned"
    /\ rec' = PostProcess(rec)
    /\ df' = DataFrame(rows)
    /\ UNCHANGED rows
    /\ UNCHANGED <<calls, history>>
    /\ UNCHANGED <<engine, args, error, balance, period, year, month,
                   loan_year, month_in_year, monthly_payment, n,
                   prev_remaining>>

----------------------------------------------------------------------------
(* calculate_standard_mortgage_schedule *)

\* while left_principal_balance > 0 and period < (years * 12)
StandardLoopConditionOffByOne(left, p, years) == left > 0 /\ p <= years * 12

StandardLoopCondition(left, p, years) == left > 0 /\ p < years * 12

StandardBegin ==
    /\ engine = "standard" /\ pc = "call"
    /\ LET payment == CalculateMonthlyPayment(args.debt, args.annual_rate,
                                              args.years)
       IN IF payment = None
          THEN /\ pc' = "raised" /\ error' = "ZeroDivisionError"
               /\ UNCHANGED <<monthly_payment, year, month, balance, period,
                              n, rec, prev_remaining, rows>>
          ELSE /\ monthly_payment' = payment
               /\ year' = args.start_year
               /\ month' = args.start_month
               /\ balance' = args.debt
               /\ period' = 0
               /\ n' = 0
               /\ rec' = NoRec
               /\ prev_remaining' = 0
               /\ rows' = EmptyLists(rows)
               /\ pc' = "loop"
               /\ error' = error
    /\ UNCHANGED df
    /\ UNCHANGED <<calls, history>>
    /\ UNCHANGED <<engine, args, loan_year, month_in_year>>

\* the monthly_payment that a loop pass appends to calculated_payments and
\* pays: the one computed before the loop, whatever the balance left
PeriodPaymentRecomputed(payment, left, annual_rate, years) ==
    CalculateMonthlyPayment(left, annual_rate, years)

PeriodPayment(payment, left, annual_rate, years) == payment

StandardPeriod ==
    /\ engine = "standard" /\ pc = "loop"
    /\ StandardLoopCondition(balance, period, args.years)
    /\ LET payment == PeriodPayment(monthly_payment, balance,
                                    args.annual_rate, args.years)
           interest_payment == MonthlyInterest(balance, args.annual_rate)
           add_on == AddOn(period + 1, args.yearly_add_on)
           top_up_amount ==
               CalculateTopUpAmount(args.module, Val(payment),
                                    args.top_up_params)
           total_available_payment ==
               Val(payment) + top_up_amount + add_on
           principal_payment ==
               PrincipalPayment(balance, total_available_payment,
                                interest_payment)
           left == balance - principal_payment
           nxt == NextMonth(year, month)
       IN /\ period' = period + 1
          /\ balance' = left
          /\ rec' = [start |-> balance,
                     principal |-> principal_payment,
                     interest |-> interest_payment,
                     total |-> principal_payment + interest_payment + add_on
                               + top_up_amount,
                     add_on |-> add_on,
                     top_up |-> top_up_amount,
                     remaining |-> left,
                     year |-> year,
                     month |-> month,
                     rate |-> args.annual_rate,
                     base |-> Val(payment)]
          /\ n' = n + 1
          /\ rows' = AppendRow(rows, rec')
          /\ prev_remaining' = rec.remaining
          /\ year' = nxt.year
          /\ month' = nxt.month
          /\ IF NotDecreasing(n + 1, left, rec.remaining)
             THEN pc' = "raised" /\ error' = "Exception"
             ELSE pc' = "loop" /\ error' = error
    /\ UNCHANGED df
    /\ UNCHANGED <<calls, history>>
    /\ UNCHANGED <<engine, args, loan_year, month_in_year, monthly_payment>>

StandardReturn ==
    /\ engine = "standard" /\ pc = "loop"
    /\ ~StandardLoopCondition(balance, period, args.years)
    /\ pc' = "returned"
    /\ rec' = PostProcess(rec)
    /\ df' = DataFrame(rows)
    /\ UNCHANGED rows
    /\ UNCHANGED <<calls, history>>
    /\ UNCHANGED <<engine, args, error, balance, period, year, month,
                   loan_year, month_in_year, monthly_payment, n,
                   prev_remaining>>

----------------------------------------------------------------------------
(* calculate_variable_rate_mortgage_schedule *)

\* the index of the rate of a loan year: years 1-5 use rates 0-4, year 6+
\* uses rate 5 (0-based)
RateIndexEarlyClamp(ly) == IF ly <= 4 THEN ly - 1 ELSE 5

RateIndex(ly) == IF ly <= 5 THEN ly - 1 ELSE 5

\* if len(interest_rates_list) != 6: raise ValueError
RatesListTooShort(interest_rates_list) == Len(interest_rates_list) < 6

RatesListRejected(interest_rates_list) == Len(interest_rates_list) # 6

VariableMortgageBegin ==
    /\ engine = "variable_mortgage" /\ pc = "call"
    /\ IF RatesListRejected(args.interest_rates_list)
       THEN /\ pc' = "raised" /\ error' = "ValueError"
            /\ UNCHANGED <<balance, loan_year, n, rec, prev_remaining, rows>>
       ELSE /\ balance' = args.debt
            /\ loan_year' = 1
            /\ n' = 0
            /\ rec' = NoRec
            /\ prev_remaining' = 0
            /\ rows' = EmptyLists(rows)
            /\ pc' = "year"
            /\ error' = error
    /\ UNCHANGED df
    /\ UNCHANGED <<calls, history>>
    /\ UNCHANGED <<engine, args, period, year, month, month_in_year,
                   monthly_payment>>

\* remaining_years = years - loan_year + 1
RemainingYearsAfter(years, ly) == years - ly

RemainingYears(years, ly) == years - ly + 1

\* the head of the loop over the loan years
VariableMortgageYear ==
    /\ engine = "variable_mortgage" /\ pc = "year"
    /\ loan_year <= args.years
    /\ LET current_rate == args.interest_rates_list[RateIndex(loan_year) + 1]
           remaining_years == RemainingYears(args.years, loan_year)
           payment == CalculateMonthlyPayment(balance, current_rate,
                                              remaining_years)
       IN IF payment = None
          THEN /\ pc' = "raised" /\ error' = "ZeroDivisionError"
               /\ UNCHANGED <<monthly_payment, year, month_in_year>>
          ELSE /\ monthly_payment' = payment
               /\ year' = args.start_year + loan_year - 1
               /\ month_in_year' = 0
               /\ pc' = "loop"
               /\ error' = error
    /\ UNCHANGED <<rows, df>>
    /\ UNCHANGED <<calls, history>>
    /\ UNCHANGED <<engine, args, balance, period, month, loan_year, n, rec,
                   prev_remaining>>

\* one pass through the loop over the months of a loan year
VariableMortgagePeriod ==
    /\ engine = "variable_mortgage" /\ pc = "loop"
    /\ ~(balance <= 0)
    /\ LET current_rate == args.interest_rates_list[RateIndex(loan_year) + 1]
           wraps == month_in_year + args.start_month > 12
           cal_month == IF wraps THEN month_in_year + args.start_month - 12
                                 ELSE month_in_year + args.start_month
           cal_year == IF wraps THEN year + 1 ELSE year
           interest_payment == MonthlyInterest(balance, current_rate)
           add_on == IF month_in_year = 11 THEN args.yearly_add_on ELSE 0
           top_up_amount ==
               CalculateTopUpAmount(args.module, Val(monthly_payment),
                                    args.top_up_params)
           total_available_payment ==
               Val(monthly_payment) + top_up_amount + add_on
           principal_payment ==
               PrincipalPayment(balance, total_available_payment,
                                interest_payment)
           left == balance - principal_payment
       IN /\ year' = cal_year
          /\ month' = cal_month
          /\ period' = (loan_year - 1) * 12 + month_in_year + 1
          /\ rec' = [start |-> balance,
                     principal |-> principal_payment,
                     interest |-> interest_payment,
                     total |-> principal_payment + interest_payment + add_on
                               + top_up_amount,
                     add_on |-> add_on,
                     top_up |-> top_up_amount,
                     remaining |-> balance - principal_payment,
                     year |-> cal_year,
                     month |-> cal_month,
                     rate |-> current_rate,
                     base |-> Val(monthly_payment)]
          /\ n' = n + 1
          /\ rows' = AppendRow(rows, rec')
          /\ prev_remaining' = rec.remaining
          /\ IF left <= Eps
             THEN \* remaining_balance = 0; break
                  /\ balance' = 0
                  /\ UNCHANGED <<month_in_year, loan_year>>
                  /\ pc' = "loop"
             ELSE IF month_in_year = 11
             THEN \* the months are exhausted, the next loan year
                  /\ balance' = left
                  /\ loan_year' = loan_year + 1
                  /\ UNCHANGED month_in_year
                  /\ pc' = "year"
             ELSE /\ balance' = left
                  /\ month_in_year' = month_in_year + 1
                  /\ UNCHANGED loan_year
                  /\ pc' = "loop"
    /\ UNCHANGED df
    /\ UNCHANGED <<calls, history>>
    /\ UNCHANGED <<engine, args, error, monthly_payment>>

\* the loops are left (years exhausted, or remaining_balance <= 0)
VariableMortgageReturn ==
    /\ engine = "variable_mortgage"
    /\ \/ pc = "year" /\ ~(loan_year <= args.years)
       \/ pc = "loop" /\ balance <= 0
    /\ pc' = "returned"
    /\ rec' = PostProcess(rec)
    /\ df' = DataFrame(rows)
    /\ UNCHANGED rows
    /\ UNCHANGED <<calls, history>>
    /\ UNCHANGED <<engine, args, error, balance, period, year, month,
                   loan_year, month_in_year, monthly_payment, n,
                   prev_remaining>>

----------------------------------------------------------------------------

Next ==
    \/ SimpleBegin
    \/ SimplePeriod
    \/ SimpleReturn
    \/ VariableRatesBegin
    \/ VariableRatesPeriod
    \/ VariableRatesReturn
    \/ StandardBegin
    \/ StandardPeriod
    \/ StandardReturn
    \/ VariableMortgageBegin
    \/ VariableMortgageYear
    \/ VariableMortgagePeriod
    \/ VariableMortgageReturn

Spec == Init /\ [][Next]_vars

----------------------------------------------------------------------------
(* A session of the application: the pages call the engines one call after *)
(* the other, src/housing.py the baseline (top-up disabled) and then the   *)
(* scenario of the same loan                                               *)

\* baseline_params = {"minimum_payment": 0, "additional_amount": 0}
BaselineParams == TopUp("", 0, 0, 0)

SessionTopUps ==
    { BaselineParams, TopUp("", 0, 3000, 0), TopUp("", 0, 0, 1500) }

SessionCalls ==
    { <<"simple",
        [NoArgs EXCEPT !.start_year = 2026, !.start_month = 1,
                       !.debt = 20005, !.interest_pct = 6,
                       !.monthly_payment = 5000]>>,
      <<"variable_rates",
        [NoArgs EXCEPT !.start_year = 2026, !.start_month = 1,
                       !.debt = 20005,
                       !.interest_rates_dict = Dict(1 :> 6, Some(12)),
                       !.monthly_payments_dict = Dict(1 :> 1000, Some(5000))]>>,
      <<"variable_mortgage",
        [NoArgs EXCEPT !.start_year = 2026, !.start_month = 1,
                       !.debt = 48000, !.years = 2, !.module = "housing",
                       !.interest_rates_list = <<6, 6, 6, 6, 6>>]>>,
      <<"standard",
        [NoArgs EXCEPT !.start_year = 2026, !.start_month = 1,
                       !.debt = 48000, !.annual_rate = 12, !.years = 2,
                       !.module = "housing",
                       !.top_up_params = BaselineParams]>>,
      <<"variable_mortgage",
        [NoArgs EXCEPT !.start_year = 2026, !.start_month = 1,
                       !.debt = 48000, !.years = 2, !.module = "housing",
                       !.interest_rates_list = <<12, 12, 12, 12, 12, 12>>,
                       !.top_up_params = BaselineParams]>> }
    \cup
    { <<"standard",
        [NoArgs EXCEPT !.start_year = 2026, !.start_month = 1,
                       !.debt = l[1], !.annual_rate = 6, !.years = l[2],
                       !.module = "housing", !.top_up_params = t]>> :
        l \in { <<20005, 1>>, <<48000, 2>> }, t \in SessionTopUps }
    \cup
    { <<"variable_mortgage",
        [NoArgs EXCEPT !.start_year = 2026, !.start_month = 1,
                       !.debt = 48000, !.years = 2, !.module = "housing",
                       !.interest_rates_list = rl,
                       !.top_up_params = t]>> :
        rl \in { <<6, 6, 6, 6, 6, 6>>, <<6, 12, 6, 6, 6, 6>> },
        t \in SessionTopUps }

\* what the caller gets: the exception, or the DataFrame (and, from
\* calculate_standard_mortgage_schedule, monthly_payment)
Result ==
    IF pc = "raised"
    THEN [error |-> error, n |-> 0, df |-> << >>, monthly_payment |-> None]
    ELSE [error |-> "", n |-> n, df |-> df,
          monthly_payment |-> IF engine = "standard" THEN monthly_payment
                                                     ELSE None]

SessionInit ==
    /\ \E c \in SessionCalls : engine = c[1] /\ args = c[2]
    /\ pc = "call"
    /\ error = ""
    /\ balance = 0
    /\ period = 0
    /\ year = 0
    /\ month = 0
    /\ loan_year = 0
    /\ month_in_year = 0
    /\ monthly_payment = None
    /\ n = 0
    /\ rec = NoRec
    /\ prev_remaining = 0
    /\ rows = << >>
    /\ df = << >>
    /\ calls = 0
    /\ history = << >>

\* the caller keeps what the call returned and makes its next call
NewCall ==
    /\ pc \in {"returned", "raised"}
    /\ calls + 1 < MaxCalls
    /\ calls' = calls + 1
    /\ history' = (<<engine, args>> :> Result) @@ history
    /\ \E c \in SessionCalls : engine' = c[1] /\ args' = c[2]
    /\ pc' = "call"
    /\ error' = ""
    /\ df' = << >>
    /\ UNCHANGED <<balance, period, year, month, loan_year, month_in_year,
                   monthly_payment, n, rec, prev_remaining, rows>>

SessionNext ==
    \/ Next
    \/ NewCall

SessionSpec == SessionInit /\ [][SessionNext]_vars

----------------------------------------------------------------------------
(* Properties *)

Engines == {"simple", "variable_rates", "standard", "variable_mortgage"}
ManualEngines == {"simple", "variable_rates"}
FormulaEngines == {"standard", "variable_mortgage"}

\* a step that appended a period record
Appended == n' = n + 1

\* the payment available in the period of record r
Available(r) == r.base + r.top_up + r.add_on

\* C1: in every engine each record's ending balance is at most its starting
\* balance, and its starting balance is the ending balance of the record
\* before it (the principal for the first record)
C1_BalanceChain ==
    [][Appended =>
         /\ rec'.remaining <= rec'.start
         /\ rec'.start = (IF n = 0 THEN args.debt ELSE rec.remaining)]_vars

C1_Witness ==
    /\ pc = "returned" /\ n >= 3
    /\ rec.start = prev_remaining
    /\ rec.remaining < rec.start

\* the 100-year safety cap the manual engines are specified to have
SafetyCapPeriods == 100 * 12

\* C2: a run of a manual-payment engine has at most 1200 periods
C2_TerminatesWithinCap ==
    engine \in ManualEngines => n <= SafetyCapPeriods

\* C3: no record has a negative ending balance or an ending balance
\* strictly between 0 and the 0.01 epsilon
C3_EpsilonClamp ==
    n > 0 => rec.remaining >= 0 /\ ~(0 < rec.remaining /\ rec.remaining < Eps)

InvalidConfiguration ==
    \/ args.debt <= 0
    \/ engine \in FormulaEngines /\ args.years <= 0
    \/ engine = "variable_rates" /\
         (args.interest_rates_dict.onwards = None \/
          args.monthly_payments_dict.onwards = None)

\* C6: an invalid configuration never returns a schedule and never gets a
\* period record
C6_InvalidConfigurationRejected ==
    InvalidConfiguration => pc # "returned" /\ n = 0

\* C7: a rate list whose length is not 6 raises ValueError before any
\* payment or period is computed
C7_RateListLength ==
    engine = "variable_mortgage" /\ Len(args.interest_rates_list) # 6 =>
        /\ pc = "call" \/ (pc = "raised" /\ error = "ValueError")
        /\ n = 0 /\ monthly_payment = None /\ rec = NoRec

C7_Witness ==
    /\ engine = "variable_mortgage" /\ error = "ValueError"
    /\ Len(args.interest_rates_list) = 5
    /\ args.years = 1 /\ args.debt > 0

\* a fixed-rate calculated-payment configuration the engine accepts
ValidStandard ==
    /\ engine = "standard"
    /\ args.debt > 0 /\ args.years > 0 /\ args.annual_rate >= 0
    /\ args.yearly_add_on >= 0
    /\ \/ args.top_up_params = None
       \/ /\ Val(args.top_up_params).amount >= 0
          /\ Val(args.top_up_params).minimum_payment >= 0
          /\ Val(args.top_up_params).additional_amount >= 0

NoExtraPayment == args.top_up_params = None /\ args.yearly_add_on = 0

C9_TermCap ==
    /\ [](engine \in FormulaEngines =>
            /\ n <= Max(0, args.years * 12)
            /\ pc = "returned" => balance <= 0 \/ n >= args.years * 12
            /\ n >= 1 /\ n = args.years * 12 /\ balance > 0 => pc # "raised")
    /\ [][(engine \in FormulaEngines /\ Appended) =>
            (balance > 0 /\ n < args.years * 12)]_vars

C9_Witness ==
    /\ engine \in FormulaEngines /\ pc = "returned"
    /\ n = args.years * 12 /\ n > 12
    /\ balance > 0 /\ rec.principal > 0

\* C10: in every record the principal payment is 0 when the available
\* payment does not exceed the interest and min(starting balance, available
\* - interest) otherwise; it lies between 0 and the starting balance, and
\* the ending balance is the starting balance minus the principal payment
C10_PrincipalPayment ==
    n > 0 =>
        /\ rec.principal = (IF Available(rec) <= rec.interest THEN 0
                            ELSE Min(rec.start, Available(rec) - rec.interest))
        /\ 0 <= rec.principal /\ rec.principal <= rec.start
        /\ rec.remaining = rec.start - rec.principal

C10_Witness ==
    /\ engine = "variable_mortgage" /\ n > 1
    /\ rec.top_up > 0 /\ rec.add_on > 0
    /\ rec.principal = rec.start /\ rec.principal < Available(rec) - rec.interest

\* C11: in all four engines the add_on of the record at 0-based position i
\* is yearly_add_on when (i + 1) % 12 = 0 and 0 otherwise
C11_AddOnPeriods ==
    n > 0 => rec.add_on = (IF n % 12 = 0 THEN args.yearly_add_on ELSE 0)

C11_Witness ==
    /\ engine = "variable_mortgage" /\ args.start_month = 3
    /\ n = 24 /\ rec.add_on = 30000 /\ prev_remaining > 0

\* the loan year of the n-th record (1-based)
LoanYearOf(k) == ((k - 1) \div 12) + 1

\* C12: in the variable-rate mortgage engine every period of loan year y is
\* charged rates[min(y, 6) - 1] (0-based): years 1-5 positionally, every
\* later year the 6th entry
C12_RateOfLoanYear ==
    engine = "variable_mortgage" /\ n > 0 =>
        LET r == args.interest_rates_list[Min(LoanYearOf(n), 6)]
        IN /\ rec.rate = r
           /\ rec.interest = MonthlyInterest(rec.start, r)

C12_Witness ==
    /\ engine = "variable_mortgage" /\ pc = "returned"
    /\ args.interest_rates_list = <<0, 0, 0, 5, 6, 7>>
    /\ n = 84 /\ rec.rate = 7 /\ rec.interest > 0

\* C13: in the variable-rate mortgage engine the base payment of the first
\* period of loan year y is the standard payment for the balance at the
\* start of that period, the rate of y and years - y + 1 remaining years,
\* and every later period of the loan year keeps it
C13_YearlyPayment ==
    [][engine = "variable_mortgage" /\ Appended =>
         IF n % 12 = 0
         THEN Some(rec'.base) =
                  CalculateMonthlyPayment(rec'.start, rec'.rate,
                                          args.years - LoanYearOf(n + 1) + 1)
         ELSE rec'.base = rec.base]_vars

C13_Witness ==
    /\ engine = "variable_mortgage" /\ n = 18
    /\ rec.top_up > 0
    /\ rec.base = Val(monthly_payment)
    /\ rec.base # Val(CalculateMonthlyPayment(args.debt,
                                              args.interest_rates_list[1],
                                              args.years))

\* C14: in the variable-rates engine the 1-based period p uses the rate and
\* the payment of loan year ceil(p / 12): the map's entry for that year, or
\* its 'onwards' entry when the year is not a key
C14_MapOfLoanYear ==
    engine = "variable_rates" /\ n > 0 =>
        /\ Some(rec.rate) = DictGet(args.interest_rates_dict, LoanYearOf(n))
        /\ Some(rec.base) = DictGet(args.monthly_payments_dict, LoanYearOf(n))

C14_Witness ==
    /\ engine = "variable_rates" /\ n = 13
    /\ args.interest_rates_dict = Dict(1 :> 6, Some(12))
    /\ args.monthly_payments_dict = Dict(1 :> 200, Some(20000))
    /\ rec.rate = 12 /\ rec.base = 20000
    /\ prev_remaining = args.debt

\* C15: the strategy selector gives 0 for no parameters, strategy 'none' and
\* an unknown strategy, max(0, amount - payment) for 'fixed', amount for
\* 'additional' and payment * amount / 100 for 'percentage'; a payment of
\* 15000 with a target minimum of 20000 gives 5000, one of 25000 gives 0
C15_StrategyTopUp ==
    engine \in FormulaEngines /\ args.module = "utils" /\ n > 0 =>
        LET t == args.top_up_params
            p == rec.base
        IN /\ t = None => rec.top_up = 0
           /\ t # None =>
                LET strategy == Val(t).strategy
                    amount == Val(t).amount
                IN /\ strategy \in {"none", ""} => rec.top_up = 0
                   /\ strategy = "fixed" =>
                        rec.top_up = (IF amount > p THEN amount - p ELSE 0)
                   /\ strategy = "additional" => rec.top_up = amount
                   /\ strategy = "percentage" =>
                        rec.top_up = RoundDiv(p * amount, 100)
           /\ t = TopUp("fixed", 20000, 0, 0) /\ p = 15000 => rec.top_up = 5000
           /\ t = TopUp("fixed", 20000, 0, 0) /\ p = 25000 => rec.top_up = 0

C15_Witness ==
    /\ engine = "standard" /\ args.module = "utils" /\ n > 0
    /\ args.top_up_params = TopUp("fixed", 20000, 0, 0)
    /\ rec.base = 25000 /\ rec.top_up = 0

C17_FirstRecordAnchor ==
    n = 1 => rec.year = args.start_year /\ rec.month = args.start_month

\* C18: in every engine consecutive records are consecutive calendar months:
\* the month goes m -> m + 1 and wraps 12 -> 1, the year increases by one at
\* each wrap and is unchanged otherwise
C18_ConsecutiveMonths ==
    [][(Appended /\ n >= 1) =>
         (/\ rec'.year = NextMonth(rec.year, rec.month).year
          /\ rec'.month = NextMonth(rec.year, rec.month).month)]_vars

\* C19: in every returned record total_payment = principal_payment +
\* interest_payment: the total computed in the loop, which includes the
\* add-on and the top-up, is overwritten
C19_TotalIsPrincipalPlusInterest ==
    pc = "returned" =>
        /\ n > 0 => rec.total = rec.principal + rec.interest
        /\ Len(df) = Len(rows)
        /\ \A i \in DOMAIN df :
              df[i].total = df[i].principal + df[i].interest

C19_Witness ==
    /\ pc = "returned"
    /\ \E i \in DOMAIN df :
          /\ rows[i].total = rows[i].principal + rows[i].interest
                             + rows[i].add_on + rows[i].top_up
          /\ rows[i].add_on > 0 /\ rows[i].top_up > 0
          /\ df[i].total # rows[i].total

C22_ZeroRatePaysOff ==
    (/\ engine = "standard" /\ args.annual_rate = 0 /\ NoExtraPayment
     /\ args.debt > 0 /\ args.years > 0 /\ pc \in {"loop", "returned"}) =>
        /\ monthly_payment = Some(RoundDiv(args.debt, 12 * args.years))
        /\ n > 0 => rec.interest = 0
        /\ pc = "returned" => n = 12 * args.years /\ rec.remaining = 0

\* the balance after k periods of balance -= (payment - balance * r / 12)
RECURSIVE SimulatedBalance(_, _, _, _)
SimulatedBalance(b, payment, rate, k) ==
    IF k = 0
    THEN b
    ELSE SimulatedBalance(b - (payment - MonthlyInterest(b, rate)),
                          payment, rate, k - 1)

\* 1.0 currency unit, a hundred times the 0.01 of the source
OneUnit == 100 * Eps

C24_InterestConvention ==
    n > 0 =>
        IF \/ engine \in FormulaEngines
           \/ args.calculation_type = "Standard Mortgage (Calculated Payment)"
        THEN /\ rec.interest = MonthlyInterest(rec.start, rec.rate)
             /\ n <= args.years * 12
        ELSE \E days \in 28..31 :
                rec.interest = DailyInterest(rec.start, rec.rate, days)

\* C25: in calculate_standard_mortgage_schedule the base payment is computed
\* once from the original principal and the full term and is frozen: every
\* record's calculated_payment is the monthly_payment returned with the
\* schedule, whatever the remaining balance, the top-up and the add-on
C25_FrozenPayment ==
    /\ [][engine = "standard" /\ pc = "loop" => monthly_payment' = monthly_payment]_vars
    /\ [](engine = "standard" /\ n > 0 =>
            /\ monthly_payment =
                 CalculateMonthlyPayment(args.debt, args.annual_rate,
                                         args.years)
            /\ args.annual_rate = 0 =>
                 monthly_payment = Some(RoundDiv(args.debt, args.years * 12))
            /\ Some(rec.base) = monthly_payment
            /\ \A i \in DOMAIN rows : Some(rows[i].base) = monthly_payment
            /\ pc = "returned" =>
                 \A i \in DOMAIN df : Some(df[i].base) = Result.monthly_payment)

C25_Witness ==
    /\ engine = "standard" /\ pc = "returned" /\ n >= 12
    /\ rec.top_up > 0 /\ rec.add_on > 0 /\ rec.start < args.debt
    /\ args.annual_rate > 0
    /\ df[1].base = df[12].base /\ df[12].remaining < df[1].remaining

BaselineCall == <<engine, [args EXCEPT !.top_up_params = BaselineParams]>>

\* total_interest = df['interest_payment'].sum()
TotalInterest(frame) == CumSum(Column(frame, "interest"), Len(frame))

StandardCall ==
    <<"standard",
      [args EXCEPT !.annual_rate = args.interest_rates_list[1],
                   !.interest_rates_list = << >>]>>

\* the compared part of a period record
Compared(r) == <<r.start, r.interest, r.principal, r.remaining, r.base>>

Near(a, b, tol) == a - b <= tol /\ b - a <= tol

LoanYears ==
    LET keys == DOMAIN args.interest_rates_dict.by_year \cup
                DOMAIN args.monthly_payments_dict.by_year \cup {0}
    IN 1..((CHOOSE k \in keys : \A j \in keys : j <= k) + 1)

\* payment > principal * rate * 31 / 365
AboveLargestInterest(payment, rate) ==
    payment * 365 * 100 > args.debt * rate * 31

\* the resolved payment of every loan year exceeds the largest possible
\* monthly interest on the initial principal
PaymentsAboveInterest ==
    /\ args.debt > 0
    /\ engine = "simple" =>
          AboveLargestInterest(args.monthly_payment, args.interest_pct)
    /\ engine = "variable_rates" =>
          \A ly \in LoanYears :
             /\ DictGet(args.interest_rates_dict, ly) # None
             /\ DictGet(args.monthly_payments_dict, ly) # None
             /\ AboveLargestInterest(
                    Val(DictGet(args.monthly_payments_dict, ly)),
                    Val(DictGet(args.interest_rates_dict, ly)))

NonNegativeRates ==
    /\ engine = "simple" => args.interest_pct >= 0
    /\ engine = "variable_rates" =>
          \A ly \in LoanYears :
             DictGet(args.interest_rates_dict, ly) # None =>
                Val(DictGet(args.interest_rates_dict, ly)) >= 0

\* the least amount by which a payment of the run exceeds the largest
\* possible monthly interest on the initial principal, rounded up
LeastMargin ==
    LET LargestInterest(rate) == (args.debt * rate * 31 + 36499) \div 36500
        margins ==
            IF engine = "simple"
            THEN { args.monthly_payment - LargestInterest(args.interest_pct) }
            ELSE { Val(DictGet(args.monthly_payments_dict, ly)) -
                   LargestInterest(Val(DictGet(args.interest_rates_dict, ly))) :
                     ly \in LoanYears }
    IN CHOOSE m \in margins : \A other \in margins : m <= other

====
